---- MODULE Spec2Model ----
(***************************************************************************)
(* A model of src/runner.py: the TestRunnerApp of cp-runner.  The app runs *)
(* a compiled binary once per test case of a TOML file, classifies every   *)
(* run (passed / failed / error / timeout) and then serves key and click   *)
(* events over the list of results.                                        *)
(*                                                                         *)
(* Text that the program compares (stdout, expected output) is a sequence  *)
(* of one-character strings; text that it only carries or formats (input,  *)
(* stderr, the error detail) is a TLA+ string.  An optional value is a     *)
(* sequence of length 0 (None) or 1.                                       *)
(***************************************************************************)
EXTENDS Integers, Sequences, FiniteSets, TLC

\* ---------------------------------------------------------------- bounds
\* Largest number of entries of the test-definition file.
MaxCases == 2
\* Largest length of a captured stdout / an expected output (SpecCompare).
MaxLen == 3

\* ------------------------------------------------------ program constants
\* run_single_test: time_ms recorded for a run that hit the 5 s timeout.
TimeoutMs == 5000

\* ------------------------------------------------------------- text model
None == << >>
Some(v) == << v >>

\* The characters for which str.isspace() holds, which are also the
\* characters the pattern \s matches.
Whitespace == {" ", "\t", "\n", "\r"}
IsSpace(c) == c \in Whitespace

\* The bounded texts: up to MaxLen characters, letters and spaces, the last
\* of which may be a newline.
Alphabet == {"a", "b", " "}
Lines == UNION {[1..k -> Alphabet] : k \in 0..MaxLen}
Strings == Lines \cup {l \o << "\n" >> : l \in {m \in Lines : Len(m) < MaxLen}}

\* The first position at or after i that holds no whitespace (Len(s)+1 when
\* there is none): where leading whitespace, or a match of \s+ that starts
\* at i, ends.
RECURSIVE skip_space(_, _)
skip_space(s, i) ==
    IF i <= Len(s) /\ IsSpace(s[i]) THEN skip_space(s, i + 1) ELSE i

\* The last position at or before j that holds no whitespace (0 when there
\* is none): where trailing whitespace begins.
RECURSIVE last_ink(_, _)
last_ink(s, j) ==
    IF j >= 1 /\ IsSpace(s[j]) THEN last_ink(s, j - 1) ELSE j

\* str.strip() with only its leading half: what is left of strip when the
\* trailing whitespace is kept.
lstrip(s) == SubSeq(s, skip_space(s, 1), Len(s))

\* str.strip(): the text without its leading and trailing whitespace.
strip(s) == SubSeq(s, skip_space(s, 1), last_ink(s, Len(s)))

\* re.split with the pattern \s (one whitespace character per separator).
RECURSIVE re_split_single(_, _, _)
re_split_single(s, i, cur) ==
    IF i > Len(s) THEN << cur >>
    ELSE IF IsSpace(s[i]) THEN << cur >> \o re_split_single(s, i + 1, << >>)
    ELSE re_split_single(s, i + 1, Append(cur, s[i]))

\* re.split(r'\s+', s) scanning from position i with the piece cur open:
\* every maximal run of whitespace closes the open piece, the end of the
\* text closes the last one (so the empty text splits into one empty piece).
RECURSIVE re_split_from(_, _, _)
re_split_from(s, i, cur) ==
    IF i > Len(s) THEN << cur >>
    ELSE IF IsSpace(s[i])
         THEN << cur >> \o re_split_from(s, skip_space(s, i), << >>)
    ELSE re_split_from(s, i + 1, Append(cur, s[i]))

re_split(s) == re_split_from(s, 1, << >>)

\* ------------------------------------------------------- signal labelling
\* signal.Signals(n).name for the numbers that name a signal; any other
\* number raises ValueError.
SignalNumbers == {6, 9, 11}
Signals(n) ==
    CASE n = 6 -> "SIGABRT"
      [] n = 9 -> "SIGKILL"
      [] n = 11 -> "SIGSEGV"

\* The try/except around signal.Signals(-(exit_code)).
signal_name(exit_code) ==
    IF (0 - exit_code) \in SignalNumbers
    THEN Signals(0 - exit_code)
    ELSE "Signal " \o ToString(0 - exit_code)

\* ------------------------------------------------ the test-definition file
\* What tomllib.load returns: an ordered mapping, here a sequence of
\* [name, value] entries with pairwise distinct names.  A value is a string,
\* a table (whose keys "input" and "expected_output" may each be absent) or
\* anything else TOML allows (an integer, say).
NameOf(i) == "t" \o ToString(i)

StrValue(text) ==
    [type |-> "str", str |-> text, input |-> None, expected_output |-> None]
TableValue(inp, exp) ==
    [type |-> "dict", str |-> "", input |-> inp, expected_output |-> exp]
IntValue ==
    [type |-> "int", str |-> "", input |-> None, expected_output |-> None]

\* dict.get(key, default) on an optional field.
get(field, default) == IF field = None THEN default ELSE field[1]

\* parse_tests: the entries whose value is a string or a table, in file
\* order; every other entry is dropped.
parse_tests(data) ==
    LET kept == SelectSeq(data, LAMBDA e : e.value.type \in {"str", "dict"})
    IN  [k \in 1..Len(kept) |->
            IF kept[k].value.type = "str"
            THEN [name |-> kept[k].name,
                  input |-> kept[k].value.str,
                  expected_output |-> None]
            ELSE [name |-> kept[k].name,
                  input |-> get(kept[k].value.input, ""),
                  expected_output |-> kept[k].value.expected_output]]

\* ------------------------------------------------- what a child run can do
\* The ways subprocess.run(..., text=True, timeout=5) can end: the child
\* exits (any status), the timeout expires (TimeoutExpired), or the call
\* raises something else (OSError on a failed fork, UnicodeDecodeError on
\* output that is not UTF-8, ...).  elapsed is the wall-clock time in ms.
Exited(code, out, err, ms) ==
    [kind |-> "exit", returncode |-> code, stdout |-> out, stderr |-> err,
     elapsed |-> ms]
TimedOut(ms) ==
    [kind |-> "timeout", returncode |-> 0, stdout |-> << >>, stderr |-> "",
     elapsed |-> ms]
Raised ==
    [kind |-> "raise", returncode |-> 0, stdout |-> << >>, stderr |-> "",
     elapsed |-> 0]

\* --------------------------------------------------------- run_single_test
\* The status run_single_test would settle on if a case without an expected
\* output passed by default.
test_status_default_pass(expected, outcome) ==
    IF outcome.kind = "timeout" THEN "timeout"
    ELSE IF outcome.returncode # 0 THEN "error"
    ELSE IF expected # None
         THEN IF re_split(strip(outcome.stdout)) = re_split(strip(expected[1]))
              THEN "passed" ELSE "failed"
    ELSE "passed"

\* The status run_single_test settles on for a call that does not raise.
test_status(expected, outcome) ==
    IF outcome.kind = "timeout" THEN "timeout"
    ELSE IF outcome.returncode # 0 THEN "error"
    ELSE IF expected # None
         THEN LET actual_tokens == re_split(strip(outcome.stdout))
                  expected_tokens == re_split(strip(expected[1]))
              IN  IF actual_tokens = expected_tokens
                  THEN "passed" ELSE "failed"
    ELSE "failed"

\* The error text of a nonzero exit with the label left out.
test_error_unlabelled(outcome) ==
    IF outcome.kind = "timeout" THEN "Time Limit Exceeded"
    ELSE IF outcome.returncode # 0 THEN ""
    ELSE outcome.stderr

\* The error text run_single_test records.
test_error(outcome) ==
    IF outcome.kind = "timeout" THEN "Time Limit Exceeded"
    ELSE IF outcome.returncode # 0
         THEN "Runtime Error: " \o signal_name(outcome.returncode)
    ELSE outcome.stderr

\* A test_info that records the measured time on every path.
test_info_measured_time(name, test, outcome, n) ==
    [name |-> name,
     index |-> n,
     status |-> test_status(test.expected_output, outcome),
     time_ms |-> outcome.elapsed,
     input |-> test.input,
     output |-> IF outcome.kind = "exit" /\ outcome.returncode = 0
                THEN outcome.stdout ELSE << >>,
     expected |-> test.expected_output,
     error |-> test_error(outcome),
     expanded |-> FALSE]

\* The test_info dictionary run_single_test appends, for a call that does
\* not raise; n is len(self.test_results) before the append.  stdout is
\* kept only on the exit-status-0 path.
test_info(name, test, outcome, n) ==
    [name |-> name,
     index |-> n,
     status |-> test_status(test.expected_output, outcome),
     time_ms |-> IF outcome.kind = "timeout" THEN TimeoutMs
                 ELSE outcome.elapsed,
     input |-> test.input,
     output |-> IF outcome.kind = "exit" /\ outcome.returncode = 0
                THEN outcome.stdout ELSE << >>,
     expected |-> test.expected_output,
     error |-> test_error(outcome),
     expanded |-> FALSE]

\* render_test_item: the list item mounted for a result (its label, which
\* repeats the result's status, name and time, is not modelled).
new_item(info, counter) ==
    [id |-> counter, test_index |-> info.index, focus |-> FALSE]

\* ------------------------------------------------------------ render_detail
\* The sections of a rendering that does not look at the expanded flag.
detail_sections_ignoring_expanded(test, vb) ==
    LET show_expanded == vb \/ test.status # "passed"
    IN  << "Input" >>
        \o (IF show_expanded /\ test.expected # None
            THEN << "Expected" >> ELSE << >>)
        \o (IF show_expanded
            THEN (IF test.status = "timeout"
                  THEN << "Output: Time Limit Exceeded" >>
                  ELSE << "Output" >>)
            ELSE << >>)
        \o (IF test.error # "" /\ test.status # "timeout"
            THEN << "Error" >> ELSE << >>)

\* The sections render_detail mounts for a result.
detail_sections(test, vb) ==
    LET show_expanded == vb \/ test.status # "passed" \/ test.expanded
    IN  << "Input" >>
        \o (IF show_expanded /\ test.expected # None
            THEN << "Expected" >> ELSE << >>)
        \o (IF show_expanded
            THEN (IF test.status = "timeout"
                  THEN << "Output: Time Limit Exceeded" >>
                  ELSE << "Output" >>)
            ELSE << >>)
        \o (IF test.error # "" /\ test.status # "timeout"
            THEN << "Error" >> ELSE << >>)

\* render_detail: the detail pane after the call; it is left as it was
\* when there is no result at focused_index.
render_detail(results, fi, vb, old) ==
    IF results = << >> \/ fi >= Len(results) THEN old
    ELSE [shown |-> TRUE,
          name |-> results[fi + 1].name,
          status |-> results[fi + 1].status,
          sections |-> detail_sections(results[fi + 1], vb)]

NoDetail == [shown |-> FALSE, name |-> "", status |-> "", sections |-> << >>]

\* -------------------------------------------------------------- show_summary
RECURSIVE sum_time(_)
sum_time(results) ==
    IF results = << >> THEN 0
    ELSE results[1].time_ms + sum_time(Tail(results))

count_status(results, st) ==
    Cardinality({k \in 1..Len(results) : results[k].status = st})

\* A summary whose failed count is every result that did not pass.
show_summary_failed_is_not_passed(results) ==
    LET passed == count_status(results, "passed")
        failed == Len(results) - passed
    IN  [passed |-> passed,
         failed |-> failed,
         total |-> Len(results),
         total_time |-> sum_time(results),
         form |-> IF failed = 0 THEN "passed/total" ELSE "passed failed"]

\* show_summary: the counts and the form of the status bar text.
show_summary(results) ==
    LET passed == count_status(results, "passed")
        failed == count_status(results, "failed")
    IN  [passed |-> passed,
         failed |-> failed,
         total |-> Len(results),
         total_time |-> sum_time(results),
         form |-> IF failed = 0 THEN "passed/total" ELSE "passed failed"]

NoSummary ==
    [passed |-> 0, failed |-> 0, total |-> 0, total_time |-> 0, form |-> ""]

\* ------------------------------------------------------------------- state
VARIABLES
    toml,             \* the contents of the test-definition file
    child,            \* child[i]: how the binary runs on the input of entry i
    testcase_filter,  \* self.testcase_filter ("all" or a case name)
    verbose,          \* self.verbose
    test_results,     \* self.test_results
    focused_index,    \* self.focused_index (0-based)
    focused_panel,    \* self.focused_panel ("sidebar" or "detail")
    button_counter,   \* self._button_counter
    items,            \* the children of #test-list
    detail,           \* the contents of #detail-content and its title
    status_bar,       \* the contents of #status-bar
    pc,               \* where the app is: "init", "running", "done", ...
    test_data,        \* run_tests: the parsed cases
    pos,              \* run_tests: the position of the loop in test_data
    callbacks,        \* the callbacks call_later has queued and not yet run
    last_event        \* the message the event loop handled last, and the
                      \* panel that had the focus when it arrived

vars == << toml, child, testcase_filter, verbose, test_results, focused_index,
           focused_panel, button_counter, items, detail, status_bar, pc,
           test_data, pos, callbacks, last_event >>

env == << toml, child, testcase_filter >>
view == << verbose, focused_index, focused_panel >>
run == << test_data, pos >>

Event(name, panel) == [name |-> name, panel |-> panel]

\* ----------------------------------------------------------- initial states
\* TestRunnerApp.__init__, for a given file, binary, filter and verbosity.
AppInit ==
    /\ test_results = << >>
    /\ focused_index = 0
    /\ button_counter = 0
    /\ focused_panel = "sidebar"
    /\ items = << >>
    /\ detail = NoDetail
    /\ status_bar = NoSummary
    /\ pc = "init"
    /\ test_data = << >>
    /\ pos = 0
    /\ callbacks = << >>
    /\ last_event = Event("none", "sidebar")

\* A file of n entries named t1..tn whose values and whose runs are sc[i].
World(n, sc) ==
    /\ toml = [i \in 1..n |-> [name |-> NameOf(i), value |-> sc[i].value]]
    /\ child = [i \in 1..n |-> sc[i].outcome]

Scenario(v, o) == [value |-> v, outcome |-> o]

\* The runs of the session model: a table with the expected output "a"
\* against each way a run can end, a bare string, and an entry that is no
\* test at all.
SessionOutcomes ==
    { Exited(0, << "a" >>, "", 12),
      Exited(0, << "a" >>, "warning", 12),
      Exited(0, << "b" >>, "", 12),
      Exited(0 - 11, << >>, "", 12),
      TimedOut(5003),
      Raised }

SessionScenarios ==
    { Scenario(TableValue(Some("1 2"), Some(<< "a" >>)), o) :
        o \in SessionOutcomes }
    \cup { Scenario(StrValue("1 2"), Exited(0, << "a" >>, "", 12)),
           Scenario(IntValue, Raised) }

\* The filters tried: none, each possible name, and a name that differs
\* from t1 in case only.
Filters == {"all", "T1"} \cup {NameOf(i) : i \in 1..MaxCases}

Init ==
    /\ AppInit
    /\ \E n \in 0..MaxCases : \E sc \in [1..n -> SessionScenarios] :
          World(n, sc)
    /\ testcase_filter \in Filters
    /\ verbose \in BOOLEAN

\* The runs of the comparison model: one case, every expected output and
\* every stdout up to MaxLen characters, and every kind of exit.
ExitCodes == {0 - 11, 0 - 9, 1, 127, 139}

CompareValues ==
    { StrValue("1 2"), TableValue(None, None) }
    \cup { TableValue(Some("1 2"), Some(e)) : e \in Strings }

CompareOutcomes ==
    { Exited(0, out, "", 12) : out \in Strings }
    \cup { Exited(c, out, "", 12) : c \in ExitCodes, out \in {<< "a" >>, << "b" >>} }
    \cup { TimedOut(5003), Raised }

InitCompare ==
    /\ AppInit
    /\ \E v \in CompareValues : \E o \in CompareOutcomes :
          World(1, << Scenario(v, o) >>)
    /\ testcase_filter = "all"
    /\ verbose = FALSE

\* ------------------------------------------------------ on_mount, run_tests
\* The index in the file of the entry a parsed case came from.
EntryOf(name) == CHOOSE i \in 1..Len(toml) : toml[i].name = name

\* The filter test of the loop when it excludes nothing.
Skipped_nothing(name) == FALSE

\* The filter test of the loop: the case is skipped.
Skipped(name) == testcase_filter # "all" /\ name # testcase_filter

\* on_mount up to the loop of run_tests: the file is parsed.
OnMount ==
    /\ pc = "init"
    /\ pc' = "running"
    /\ test_data' = parse_tests(toml)
    /\ pos' = 1
    /\ last_event' = Event("mount", focused_panel)
    /\ UNCHANGED << env, view, test_results, button_counter, items, detail,
                    status_bar, callbacks >>

\* The loop position after a case has run when a timeout does not end the
\* loop.
next_pos_no_break(status, p, n) == p + 1

\* The loop position after a case has run: a timeout breaks out of the loop
\* (n is len(test_data)).
next_pos(status, p, n) == IF status = "timeout" THEN n + 1 ELSE p + 1

\* One iteration of the loop for a case the filter excludes: continue.
SkipCase ==
    /\ pc = "running"
    /\ pos <= Len(test_data)
    /\ Skipped(test_data[pos].name)
    /\ pos' = pos + 1
    /\ UNCHANGED << env, view, test_results, button_counter, items, detail,
                    status_bar, pc, test_data, callbacks, last_event >>

\* One iteration of the loop for a case that runs: run_single_test appends
\* the result and mounts its item, and a timeout breaks out of the loop.
RunSingleTest ==
    /\ pc = "running"
    /\ pos <= Len(test_data)
    /\ ~Skipped(test_data[pos].name)
    /\ LET test == test_data[pos]
           outcome == child[EntryOf(test.name)]
           info == test_info(test.name, test, outcome, Len(test_results))
       IN  /\ outcome.kind # "raise"
           /\ test_results' = Append(test_results, info)
           /\ items' = Append(items, new_item(info, button_counter))
           /\ button_counter' = button_counter + 1
           /\ pos' = next_pos(info.status, pos, Len(test_data))
    /\ UNCHANGED << env, view, detail, status_bar, pc, test_data, callbacks,
                    last_event >>

\* One iteration of the loop in which subprocess.run raises something other
\* than TimeoutExpired: nothing catches it, it leaves run_single_test,
\* run_tests and on_mount, and the app stops on the unhandled exception.
RunSingleTestRaises ==
    /\ pc = "running"
    /\ pos <= Len(test_data)
    /\ ~Skipped(test_data[pos].name)
    /\ child[EntryOf(test_data[pos].name)].kind = "raise"
    /\ pc' = "crashed"
    /\ UNCHANGED << env, view, test_results, button_counter, items, detail,
                    status_bar, test_data, pos, callbacks, last_event >>

\* The end of run_tests: render_detail, show_summary, call_later.
RunTestsFinish ==
    /\ pc = "running"
    /\ pos > Len(test_data)
    /\ detail' = render_detail(test_results, focused_index, verbose, detail)
    /\ status_bar' = show_summary(test_results)
    /\ callbacks' = Append(callbacks, "_set_initial_focus")
    /\ pc' = "done"
    /\ UNCHANGED << env, view, test_results, button_counter, items,
                    test_data, pos, last_event >>

NextRun ==
    \/ OnMount
    \/ RunSingleTest
    \/ RunSingleTestRaises
    \/ RunTestsFinish

SpecCompare == InitCompare /\ [][NextRun]_vars

\* ------------------------------------------------------------ the event loop
\* on_mount runs the whole session before it returns, so the event loop
\* handles the queued callback and the user's keys and clicks only after it.
set_focus_class(its, k, on) == [its EXCEPT ![k + 1].focus = on]

\* _set_initial_focus, the callback run_tests queued with call_later.
SetInitialFocus ==
    /\ pc = "done"
    /\ callbacks # << >>
    /\ callbacks' = Tail(callbacks)
    /\ items' = IF items # << >> THEN set_focus_class(items, 0, TRUE)
                ELSE items
    /\ last_event' = Event("_set_initial_focus", focused_panel)
    /\ UNCHANGED << env, view, test_results, button_counter, detail,
                    status_bar, pc, run >>

\* on_click on widget w: item w of the list (1..len), or 0 for any widget
\* that has no test_index.
OnClick ==
    /\ pc = "done"
    /\ \E w \in 0..Len(items) :
          IF w = 0
          THEN UNCHANGED << view, items, detail >>
          ELSE LET cleared ==
                       IF 0 <= focused_index /\ focused_index < Len(items)
                       THEN set_focus_class(items, focused_index, FALSE)
                       ELSE items
                   target == items[w].test_index
               IN  /\ focused_index' = target
                   /\ focused_panel' = "sidebar"
                   /\ items' = IF 0 <= target /\ target < Len(cleared)
                               THEN set_focus_class(cleared, target, TRUE)
                               ELSE cleared
                   /\ detail' = render_detail(test_results, target, verbose,
                                              detail)
                   /\ verbose' = verbose
    /\ last_event' = Event("click", focused_panel)
    /\ UNCHANGED << env, test_results, button_counter, status_bar, pc, run,
                    callbacks >>

\* The index action_cursor_up would move to if it wrapped around at the top.
cursor_up_wrapping(fi, n) ==
    IF n > 0 /\ fi > 0 THEN fi - 1 ELSE IF n > 0 THEN n - 1 ELSE fi

\* The index action_cursor_up leaves in focused_index, n being len(items).
cursor_up_target(fi, n) == IF n > 0 /\ fi > 0 THEN fi - 1 ELSE fi

\* The index action_cursor_down leaves in focused_index.
cursor_down_target(fi, n) == IF n > 0 /\ fi < n - 1 THEN fi + 1 ELSE fi

\* The cursor move without the assignment to focused_panel.
MoveCursor_keep_panel(target) ==
    IF target = focused_index
    THEN UNCHANGED << view, items, detail >>
    ELSE /\ focused_index' = target
         /\ items' = set_focus_class(
                         set_focus_class(items, focused_index, FALSE),
                         target, TRUE)
         /\ focused_panel' = focused_panel
         /\ detail' = render_detail(test_results, target, verbose, detail)
         /\ verbose' = verbose

\* What action_cursor_up and action_cursor_down do once the target is known:
\* nothing when it is the current index, else move the focus class, the
\* index and the panel, and render the detail.
MoveCursor(target) ==
    IF target = focused_index
    THEN UNCHANGED << view, items, detail >>
    ELSE /\ focused_index' = target
         /\ items' = set_focus_class(
                         set_focus_class(items, focused_index, FALSE),
                         target, TRUE)
         /\ focused_panel' = "sidebar"
         /\ detail' = render_detail(test_results, target, verbose, detail)
         /\ verbose' = verbose

\* action_cursor_up: the app's priority binding of the "up" key.
ActionCursorUp ==
    /\ pc = "done"
    /\ MoveCursor(cursor_up_target(focused_index, Len(items)))
    /\ last_event' = Event("cursor_up", focused_panel)
    /\ UNCHANGED << env, test_results, button_counter, status_bar, pc, run,
                    callbacks >>

\* action_cursor_down: the app's priority binding of the "down" key.
ActionCursorDown ==
    /\ pc = "done"
    /\ MoveCursor(cursor_down_target(focused_index, Len(items)))
    /\ last_event' = Event("cursor_down", focused_panel)
    /\ UNCHANGED << env, test_results, button_counter, status_bar, pc, run,
                    callbacks >>

\* The results with the expanded flag of every result negated.
toggle_expanded_all(results, fi) ==
    [k \in 1..Len(results) |->
        [results[k] EXCEPT !.expanded = ~results[k].expanded]]

\* The results after the assignment of action_toggle_expand: the expanded
\* flag of the result at index fi (0-based) is negated.
toggle_expanded(results, fi) ==
    [results EXCEPT ![fi + 1].expanded = ~results[fi + 1].expanded]

\* action_toggle_expand.
ActionToggleExpand ==
    /\ pc = "done"
    /\ IF 0 <= focused_index /\ focused_index < Len(test_results)
       THEN /\ test_results' = toggle_expanded(test_results, focused_index)
            /\ detail' = render_detail(test_results', focused_index, verbose,
                                       detail)
       ELSE UNCHANGED << test_results, detail >>
    /\ last_event' = Event("toggle_expand", focused_panel)
    /\ UNCHANGED << env, view, button_counter, items, status_bar, pc, run,
                    callbacks >>

\* The results with the expanded flags set only when verbose turns on.
set_all_expanded_on_only(results, vb) ==
    [k \in 1..Len(results) |->
        [results[k] EXCEPT !.expanded = vb \/ results[k].expanded]]

\* The results after the loop of action_toggle_verbose: every result's
\* expanded flag is set to vb.
set_all_expanded(results, vb) ==
    [k \in 1..Len(results) |-> [results[k] EXCEPT !.expanded = vb]]

\* A toggle_verbose that also drops the captured output of every result.
ActionToggleVerbose_dropping_output ==
    /\ pc = "done"
    /\ verbose' = ~verbose
    /\ test_results' =
          [k \in 1..Len(test_results) |->
              [test_results[k] EXCEPT !.expanded = verbose',
                                      !.output = << >>]]
    /\ detail' = render_detail(test_results', focused_index, verbose', detail)
    /\ last_event' = Event("toggle_verbose", focused_panel)
    /\ UNCHANGED << env, focused_index, focused_panel, button_counter, items,
                    status_bar, pc, run, callbacks >>

\* action_toggle_verbose.
ActionToggleVerbose ==
    /\ pc = "done"
    /\ verbose' = ~verbose
    /\ test_results' = set_all_expanded(test_results, verbose')
    /\ detail' = render_detail(test_results', focused_index, verbose', detail)
    /\ last_event' = Event("toggle_verbose", focused_panel)
    /\ UNCHANGED << env, focused_index, focused_panel, button_counter, items,
                    status_bar, pc, run, callbacks >>

\* A panel choice that never returns to the listing.
other_panel_detail_only(panel) == "detail"

\* The panel action_toggle_focus moves the focus to.
other_panel(panel) == IF panel = "sidebar" THEN "detail" ELSE "sidebar"

\* action_toggle_focus.
ActionToggleFocus ==
    /\ pc = "done"
    /\ focused_panel' = other_panel(focused_panel)
    /\ last_event' = Event("toggle_focus", focused_panel)
    /\ UNCHANGED << env, verbose, focused_index, test_results, button_counter,
                    items, detail, status_bar, pc, run, callbacks >>

\* The "q" binding: the app exits and handles no further event.
ActionQuit ==
    /\ pc = "done"
    /\ pc' = "quit"
    /\ last_event' = Event("quit", focused_panel)
    /\ UNCHANGED << env, view, test_results, button_counter, items, detail,
                    status_bar, run, callbacks >>

NextEvent ==
    \/ SetInitialFocus
    \/ OnClick
    \/ ActionCursorUp
    \/ ActionCursorDown
    \/ ActionToggleExpand
    \/ ActionToggleVerbose
    \/ ActionToggleFocus
    \/ ActionQuit

Next ==
    \/ OnMount
    \/ SkipCase
    \/ RunSingleTest
    \/ RunSingleTestRaises
    \/ RunTestsFinish
    \/ NextEvent

Spec == Init /\ [][Next]_vars

\* ================================================================== claims
Statuses == {"passed", "failed", "error", "timeout"}

Finished == pc \in {"done", "quit", "crashed"}

TimedOutAt(k) == test_results[k].status = "timeout"

\* C1: run_tests runs no case after a timeout.  A result with status
\* timeout is the last element of test_results (so there is at most one),
\* the loop has been left as soon as it is there, and under the filter
\* "all" the timeout of case k leaves exactly k results, one per case 1..k.
C1_TimeoutHaltsRun ==
    \A k \in 1..Len(test_results) :
        TimedOutAt(k) =>
            /\ k = Len(test_results)
            /\ pos > Len(test_data)
            /\ testcase_filter = "all" =>
                  \A j \in 1..k : test_results[j].name = test_data[j].name

\* C1 happens: the first of two cases timed out and the run ended with one
\* result.
C1_Witness ==
    /\ pc = "done"
    /\ testcase_filter = "all"
    /\ Len(test_data) = 2
    /\ Len(test_results) = 1
    /\ TimedOutAt(1)

\* C6 as claimed: once the run has ended under the filter "all" without a
\* timeout, test_results holds exactly one result per case, in case order,
\* result i carrying the name of case i and the index i (0-based); and at
\* every moment there are no more results than cases and no name twice.
C6_OneResultPerCase ==
    /\ Len(test_results) <= Len(test_data)
    /\ \A i, j \in 1..Len(test_results) :
          test_results[i].name = test_results[j].name => i = j
    /\ ( /\ Finished
         /\ testcase_filter = "all"
         /\ \A k \in 1..Len(test_results) : ~TimedOutAt(k) )
       => /\ Len(test_results) = Len(test_data)
          /\ \A i \in 1..Len(test_data) :
                /\ test_results[i].name = test_data[i].name
                /\ test_results[i].index = i - 1

NoCaseMatches ==
    \A k \in 1..Len(parse_tests(toml)) :
        parse_tests(toml)[k].name # testcase_filter

\* C7: with a filter set, run_tests runs only the case whose name equals
\* the filter: test_results holds at most one result, named as the filter.
\* If no case has that name, no case runs, the loop can always go on to
\* its end without running one, and the run ends with nothing rendered in
\* the detail pane and the summary of an empty session.
C7_FilterRunsOnlyMatch ==
    testcase_filter # "all" =>
        /\ Len(test_results) <= 1
        /\ \A k \in 1..Len(test_results) :
              test_results[k].name = testcase_filter
        /\ NoCaseMatches =>
              /\ test_results = << >>
              /\ pc # "crashed"
              /\ pc = "init" => ENABLED OnMount
              /\ pc = "running" => ENABLED (SkipCase \/ RunTestsFinish)
              /\ pc \in {"done", "quit"} =>
                    /\ detail = NoDetail
                    /\ status_bar = show_summary(<< >>)

\* C7 happens: of two cases the filter named the second, the first was
\* skipped and the second ran.
C7_Witness ==
    /\ pc = "done"
    /\ testcase_filter = NameOf(2)
    /\ Len(test_data) = 2
    /\ Len(test_results) = 1
    /\ test_results[1].name = NameOf(2)

\* C8 as claimed: run_single_test never raises to its caller, and every
\* result it appends has one of the four final statuses.
C8_NeverRaises ==
    /\ pc # "crashed"
    /\ \A k \in 1..Len(test_results) : test_results[k].status \in Statuses

\* The run that produced result k.
OutcomeOf(k) == child[EntryOf(test_results[k].name)]

ExitedZero(k) == OutcomeOf(k).kind = "exit" /\ OutcomeOf(k).returncode = 0

SetMax(S) == CHOOSE m \in S : \A x \in S : m >= x

\* The token sequence of a text, said without strip or split: the maximal
\* runs of non-whitespace characters, from left to right.
Tokens(s) ==
    LET starts == {i \in 1..Len(s) :
                      ~IsSpace(s[i]) /\ (i = 1 \/ IsSpace(s[i - 1]))}
        EndOf(i) == SetMax({j \in i..Len(s) :
                               \A m \in i..j : ~IsSpace(s[m])})
        Nth(k) == CHOOSE i \in starts :
                      Cardinality({j \in starts : j < i}) = k - 1
    IN  [k \in 1..Cardinality(starts) |-> SubSeq(s, Nth(k), EndOf(Nth(k)))]

\* C2: a case that exits with status 0 and has an expected output is
\* Passed exactly when stdout and expected have the same token sequence,
\* token by token and in order, and is Failed otherwise.
C2_PassedIffTokensEqual ==
    \A k \in 1..Len(test_results) :
        (ExitedZero(k) /\ test_results[k].expected # None) =>
            /\ test_results[k].status \in {"passed", "failed"}
            /\ test_results[k].status = "passed" <=>
                  Tokens(OutcomeOf(k).stdout) =
                      Tokens(test_results[k].expected[1])

\* C2 happens: a case passed although its stdout is not the expected text
\* character for character.
C2_Witness ==
    /\ Len(test_results) = 1
    /\ ExitedZero(1)
    /\ test_results[1].expected # None
    /\ test_results[1].status = "passed"
    /\ test_results[1].output # test_results[1].expected[1]

\* C3 as claimed: a case without expected output is always recorded Failed.
C3_NoExpectedAlwaysFailed ==
    \A k \in 1..Len(test_results) :
        test_results[k].expected = None => test_results[k].status = "failed"

\* C3, amended: a case without expected output, which every case given as
\* a bare string is, is never Passed; it is Failed whenever the child exits
\* with status 0, whatever it printed, Error on a nonzero exit and Timeout
\* on a timeout.
C3_NoExpectedNeverPassed ==
    \A k \in 1..Len(test_results) :
        /\ toml[EntryOf(test_results[k].name)].value.type = "str" =>
              test_results[k].expected = None
        /\ test_results[k].expected = None =>
              /\ test_results[k].status # "passed"
              /\ ExitedZero(k) => test_results[k].status = "failed"
              /\ (OutcomeOf(k).kind = "exit" /\ OutcomeOf(k).returncode # 0)
                    => test_results[k].status = "error"
              /\ OutcomeOf(k).kind = "timeout" =>
                    test_results[k].status = "timeout"

\* C3 happens: a bare-string case whose child exited with status 0 and
\* printed something was recorded Failed.
C3_Witness ==
    /\ Len(test_results) = 1
    /\ toml[1].value.type = "str"
    /\ ExitedZero(1)
    /\ test_results[1].output # << >>
    /\ test_results[1].status = "failed"

\* The labels a runtime error can carry: a signal name, or "Signal N".
ErrorLabels ==
    {Signals(n) : n \in SignalNumbers}
    \cup {"Signal " \o ToString(n) : n \in (0 - 255)..255}

\* C4: a nonzero exit is recorded as Error with the non-empty detail
\* "Runtime Error: <label>", the label a signal name or "Signal N",
\* whether or not stdout matches the expected output and whether or not
\* there is an expected output.
C4_NonzeroExitIsError ==
    \A k \in 1..Len(test_results) :
        (OutcomeOf(k).kind = "exit" /\ OutcomeOf(k).returncode # 0) =>
            /\ test_results[k].status = "error"
            /\ test_results[k].error # ""
            /\ \E label \in ErrorLabels :
                  test_results[k].error = "Runtime Error: " \o label

\* C4 happens: the child printed exactly the expected output, exited with a
\* nonzero status and was recorded Error.
C4_Witness ==
    /\ Len(test_results) = 1
    /\ OutcomeOf(1).kind = "exit"
    /\ OutcomeOf(1).returncode # 0
    /\ test_results[1].expected = Some(OutcomeOf(1).stdout)
    /\ test_results[1].status = "error"

\* The texts one whitespace edit away from s: a whitespace character put
\* in front, at the end or next to another one, a whitespace character
\* replaced by another, or a leading, trailing or doubled one removed.
WsVariants(s) ==
    LET n == Len(s)
        Extends(p) == \/ p = 0
                      \/ p = n
                      \/ IsSpace(s[p])
                      \/ IsSpace(s[p + 1])
        Removable(p) == /\ IsSpace(s[p])
                        /\ \/ p = 1
                           \/ p = n
                           \/ IsSpace(s[p - 1])
                           \/ IsSpace(s[p + 1])
    IN  {SubSeq(s, 1, p) \o << c >> \o SubSeq(s, p + 1, n) :
            p \in {q \in 0..n : Extends(q)}, c \in Whitespace}
        \cup {[s EXCEPT ![p] = c] :
                p \in {q \in 1..n : IsSpace(s[q])}, c \in Whitespace}
        \cup {SubSeq(s, 1, p - 1) \o SubSeq(s, p + 1, n) :
                p \in {q \in 1..n : Removable(q)}}

\* C5: for an exit with status 0 and an expected output, the verdict
\* recorded is the verdict of the same comparison after any whitespace-only
\* edit of stdout or of expected.
C5_VerdictIgnoresWhitespace ==
    \A k \in 1..Len(test_results) :
        (ExitedZero(k) /\ test_results[k].expected # None) =>
            LET o == OutcomeOf(k)
                e == test_results[k].expected
            IN  /\ \A t \in WsVariants(o.stdout) :
                      test_status(e, [o EXCEPT !.stdout = t]) =
                          test_results[k].status
                /\ \A t \in WsVariants(e[1]) :
                      test_status(Some(t), o) = test_results[k].status

\* C5 happens: a case passed whose stdout is longer than the expected text
\* by whitespace only.
C5_Witness ==
    /\ Len(test_results) = 1
    /\ ExitedZero(1)
    /\ test_results[1].expected # None
    /\ test_results[1].status = "passed"
    /\ Len(test_results[1].output) > Len(test_results[1].expected[1])
    /\ test_results[1].expected[1] # << >>

\* What a cursor key may change.
CursorFrame == << view, test_results, items, detail >>

\* The step is the event loop handling the event called name: every handler
\* leaves its name in last_event, and no other step does.
Handled(name) == pc = "done" /\ last_event'.name = name

\* C9: whenever test_results is non-empty, 0 <= focused_index <
\* len(test_results), whatever events are handled.  cursor_up at index 0
\* and cursor_down at the last index change nothing, any other cursor_up or
\* cursor_down moves the index by exactly 1, and the toggles leave it alone.
C9_FocusedIndexInRange ==
    /\ [](test_results # << >> =>
             (0 <= focused_index /\ focused_index < Len(test_results)))
    /\ [][ /\ Handled("cursor_up") =>
                IF test_results = << >> \/ focused_index = 0
                THEN UNCHANGED CursorFrame
                ELSE focused_index' = focused_index - 1
           /\ Handled("cursor_down") =>
                IF test_results = << >>
                   \/ focused_index = Len(test_results) - 1
                THEN UNCHANGED CursorFrame
                ELSE focused_index' = focused_index + 1
           /\ (Handled("toggle_expand") \/ Handled("toggle_verbose")
                  \/ Handled("toggle_focus"))
                => focused_index' = focused_index
         ]_vars

\* C9 happens: with two results, cursor_down has been handled and the
\* focus is on the last one.
C9_Witness ==
    /\ Len(test_results) = 2
    /\ last_event.name = "cursor_down"
    /\ focused_index = 1

\* C10 as claimed: with the detail pane focused, cursor_up and cursor_down
\* change neither focused_index nor focused_panel.
C10_CursorOnlyInListing ==
    [][ (focused_panel = "detail"
           /\ (Handled("cursor_up") \/ Handled("cursor_down")))
            => /\ focused_index' = focused_index
               /\ focused_panel' = focused_panel
      ]_vars

\* C10, amended: cursor_up and cursor_down are handled in either panel
\* state.  With the detail pane focused, one that is not at the boundary of
\* the list moves focused_index by exactly 1 and gives the focus back to
\* the list; one at the boundary changes neither.
C10_CursorFromDetailPane ==
    [][ /\ (focused_panel = "detail" /\ Handled("cursor_up")) =>
              IF test_results # << >> /\ focused_index > 0
              THEN /\ focused_index' = focused_index - 1
                   /\ focused_panel' = "sidebar"
              ELSE UNCHANGED << focused_index, focused_panel >>
        /\ (focused_panel = "detail" /\ Handled("cursor_down")) =>
              IF test_results # << >>
                 /\ focused_index < Len(test_results) - 1
              THEN /\ focused_index' = focused_index + 1
                   /\ focused_panel' = "sidebar"
              ELSE UNCHANGED << focused_index, focused_panel >>
      ]_vars

\* C10 happens: cursor_down arrived while the detail pane had the focus,
\* and it moved the focus to the second result and back to the list.
C10_Witness ==
    /\ last_event = Event("cursor_down", "detail")
    /\ focused_index = 1
    /\ focused_panel = "sidebar"

\* The result at focused_index.
Focused == test_results[focused_index + 1]

\* C11: toggle_expand negates the expanded flag of the result at
\* focused_index and changes nothing else of it, leaves every other result,
\* verbose, focused_index and focused_panel as they are, and changes
\* nothing on an empty session.
C11_ToggleExpandFrame ==
    [][ Handled("toggle_expand") =>
          /\ UNCHANGED view
          /\ IF test_results = << >>
             THEN UNCHANGED << test_results, detail, items >>
             ELSE /\ Len(test_results') = Len(test_results)
                  /\ test_results'[focused_index + 1] =
                        [Focused EXCEPT !.expanded = ~Focused.expanded]
                  /\ \A k \in 1..Len(test_results) :
                        k # focused_index + 1 =>
                            test_results'[k] = test_results[k]
      ]_vars

\* C11 happens: toggle_expand has been handled with two results, and only
\* the focused one, the second, is expanded.
C11_Witness ==
    /\ last_event.name = "toggle_expand"
    /\ Len(test_results) = 2
    /\ focused_index = 1
    /\ test_results[2].expanded
    /\ ~test_results[1].expanded

\* C12: right after a toggle_verbose, verbose is negated and every result's
\* expanded flag equals the new verbose; so turning verbose off leaves every
\* result with expanded = FALSE, whatever toggle_expand did before.
C12_ToggleVerboseSetsAll ==
    [][ Handled("toggle_verbose") =>
          /\ verbose' = ~verbose
          /\ Len(test_results') = Len(test_results)
          /\ \A k \in 1..Len(test_results') :
                test_results'[k].expanded = verbose'
          /\ verbose =>
                \A k \in 1..Len(test_results') : ~test_results'[k].expanded
      ]_vars

\* C12 happens: verbose has just been turned off over two results, none of
\* which is expanded any more, and the pane shows the collapsed passed case.
C12_Witness ==
    /\ last_event.name = "toggle_verbose"
    /\ ~verbose
    /\ Len(test_results) = 2
    /\ \A k \in 1..2 : ~test_results[k].expanded
    /\ Focused.status = "passed"
    /\ detail.sections = << "Input" >>

\* The labels of the sections the detail pane shows.
Shown == { detail.sections[i] : i \in 1..Len(detail.sections) }

\* The detail pane shows the result at focused_index.
PaneIsCurrent ==
    /\ pc \in { "done", "quit" }
    /\ test_results # << >>
    /\ detail.shown

\* C13: the pane shows the full detail (the expected output and the raw
\* output) exactly when verbose is on, the status is not passed or the
\* result is expanded; for a passed, non-verbose, non-expanded result it
\* shows the input and nothing else, whatever the child wrote.
C13_CollapsedShowsOnlyInput ==
    PaneIsCurrent =>
        LET full == verbose \/ Focused.status # "passed" \/ Focused.expanded
        IN  /\ full => /\ Focused.expected # None => "Expected" \in Shown
                       /\ \/ "Output" \in Shown
                          \/ "Output: Time Limit Exceeded" \in Shown
            /\ ~full => detail.sections = << "Input" >>

\* C14: toggle_expand on a passed, non-verbose focused result reveals the
\* Expected and Output sections when it was collapsed and hides them when
\* it was expanded, a second toggle_expand gives back the pane of before,
\* and what the pane would show of any other result is unaffected.
C14_ExpandRevealsAndHides ==
    [][ ( /\ Handled("toggle_expand")
          /\ test_results # << >>
          /\ Focused.status = "passed"
          /\ ~verbose ) =>
          LET now == { detail'.sections[i] : i \in 1..Len(detail'.sections) }
          IN  /\ ~Focused.expanded =>
                    /\ { "Expected", "Output" } \subseteq now
                    /\ { "Expected", "Output" } \cap Shown = { }
              /\ Focused.expanded =>
                    /\ { "Expected", "Output" } \cap now = { }
                    /\ { "Expected", "Output" } \subseteq Shown
              /\ now \ { "Expected", "Output" } = Shown \ { "Expected", "Output" }
              /\ render_detail(toggle_expanded(test_results', focused_index'),
                               focused_index', verbose', detail') = detail
              /\ \A k \in 1..Len(test_results) :
                    k # focused_index + 1 =>
                        detail_sections(test_results'[k], verbose') =
                            detail_sections(test_results[k], verbose)
      ]_vars

\* C14 happens: toggle_expand has expanded the focused passed result of a
\* non-verbose session with two results, and the pane shows its output.
C14_Witness ==
    /\ last_event.name = "toggle_expand"
    /\ ~verbose
    /\ Len(test_results) = 2
    /\ Focused.status = "passed"
    /\ Focused.expanded
    /\ { "Expected", "Output" } \subseteq Shown

\* The events the user raises.
UserEvent ==
    \/ OnClick
    \/ ActionCursorUp
    \/ ActionCursorDown
    \/ ActionToggleExpand
    \/ ActionToggleVerbose
    \/ ActionToggleFocus
    \/ ActionQuit

\* Some cases of the run have produced their result and a later one has
\* not yet.
PartlyRun ==
    /\ pc = "running"
    /\ test_results # << >>
    /\ \E j \in pos..Len(test_data) : ~Skipped(test_data[j].name)

\* C15: execution and presentation interleave: in a state where some but
\* not all cases of the run have produced results, a user event can be
\* handled.
C15_EventsHandledDuringRun ==
    PartlyRun => ENABLED UserEvent

Panels == { "sidebar", "detail" }

\* C16: toggle_focus moves focused_panel to the other of the two panels, so
\* that two of them in a row restore it, and leaves focused_index, verbose
\* and every result as they are; the session starts focused on the listing
\* with focused_index = 0, and verbose keeps its startup value until a
\* toggle_verbose.
C16_ToggleFocusFrame ==
    [][ /\ pc = "init" => /\ focused_panel = "sidebar"
                          /\ focused_index = 0
                          /\ UNCHANGED view
        /\ ~Handled("toggle_verbose") => verbose' = verbose
        /\ Handled("toggle_focus") =>
              /\ focused_panel \in Panels
              /\ focused_panel' \in Panels \ { focused_panel }
              /\ UNCHANGED << focused_index, verbose, test_results >>
      ]_vars

\* C16 happens: a toggle_focus that arrived in the detail pane has moved
\* the focus back to the listing, with the cursor still on the second
\* result and that result still expanded.
C16_Witness ==
    /\ last_event = Event("toggle_focus", "detail")
    /\ focused_panel = "sidebar"
    /\ focused_index = 1
    /\ Focused.expanded
    /\ ~verbose

\* C17: a result whose child did not finish within the timeout has status
\* timeout, the failure detail "Time Limit Exceeded" and the elapsed time
\* 5000 ms, whatever time was measured; it holds no output.
C17_TimeoutResult ==
    \A k \in 1..Len(test_results) :
        OutcomeOf(k).kind = "timeout" =>
            /\ test_results[k].status = "timeout"
            /\ test_results[k].error = "Time Limit Exceeded"
            /\ test_results[k].time_ms = 5000
            /\ test_results[k].output = << >>

\* C17 happens: the child of a case with an expected output ran for 5003 ms
\* until it was stopped, and its result is there.
C17_Witness ==
    /\ Len(test_results) = 1
    /\ OutcomeOf(1).kind = "timeout"
    /\ OutcomeOf(1).elapsed = 5003
    /\ test_results[1].expected # None
    /\ test_results[1].status = "timeout"

\* A result without its expanded flag.
Recorded(test) == [test EXCEPT !.expanded = FALSE]

\* C18: a step of the event loop leaves the length and the order of
\* test_results and every field of every result but expanded as they are;
\* test_results changes otherwise only by run_tests appending one result.
C18_ResultsAppendOnly ==
    [][ /\ pc = "done" =>
              /\ Len(test_results') = Len(test_results)
              /\ \A k \in 1..Len(test_results) :
                    Recorded(test_results'[k]) = Recorded(test_results[k])
        /\ (pc # "done" /\ test_results' # test_results) =>
              /\ pc = "running"
              /\ pc' = "running"
              /\ Len(test_results') = Len(test_results) + 1
              /\ SubSeq(test_results', 1, Len(test_results)) = test_results
      ]_vars

\* C18 happens: events have expanded both results, one of which is an error
\* and one of which passed with its output kept.
C18_Witness ==
    /\ pc = "done"
    /\ last_event.name \in { "toggle_verbose", "toggle_expand" }
    /\ Len(test_results) = 2
    /\ test_results[1].expanded /\ test_results[2].expanded
    /\ test_results[1].status = "passed" /\ test_results[1].output # << >>
    /\ test_results[2].status = "error" /\ test_results[2].error # ""

\* The positions of the results with a status of S.
WithStatus(S) == { k \in 1..Len(test_results) : test_results[k].status \in S }

\* C19: the summary counts as failed the results with status failed only
\* and as passed those with status passed only, so passed + failed <= total
\* with equality exactly when no result is error or timeout, and it has the
\* "passed/total passed" form exactly when no result has status failed,
\* error and timeout results notwithstanding.
C19_SummaryCounts ==
    pc \in { "done", "quit" } =>
        /\ status_bar.passed = Cardinality(WithStatus({ "passed" }))
        /\ status_bar.failed = Cardinality(WithStatus({ "failed" }))
        /\ status_bar.total = Len(test_results)
        /\ status_bar.passed + status_bar.failed <= status_bar.total
        /\ status_bar.passed + status_bar.failed = status_bar.total
              <=> WithStatus({ "error", "timeout" }) = { }
        /\ status_bar.form = "passed/total"
              <=> WithStatus({ "failed" }) = { }
        /\ status_bar.form \in { "passed/total", "passed failed" }

\* C19 happens: the summary of a passed and an error result has the
\* "1/2 passed" form.
C19_Witness ==
    /\ pc = "done"
    /\ Len(test_results) = 2
    /\ WithStatus({ "passed" }) = { 1 }
    /\ WithStatus({ "error" }) = { 2 }
    /\ status_bar.form = "passed/total"
    /\ status_bar.passed = 1
    /\ status_bar.failed = 0
    /\ status_bar.total = 2

\* The positions of the list items that carry the focus highlight.
Highlighted == { k \in 1..Len(items) : items[k].focus }

\* The list has one item per result, each holding its result's position.
ItemsInLockstep ==
    /\ Len(items) = Len(test_results)
    /\ \A k \in 1..Len(items) : items[k].test_index = k - 1

\* C20: however _set_initial_focus interleaves with cursor_up, cursor_down
\* and click, at most one list item carries the focus highlight, and once
\* the callback has run the highlighted item is the one at focused_index;
\* the list items are in lockstep with test_results.
C20_OneHighlightAtFocusedIndex ==
    /\ Cardinality(Highlighted) <= 1
    /\ (pc \in { "done", "quit" } /\ callbacks = << >> /\ items # << >>) =>
            Highlighted = { focused_index + 1 }
    /\ ItemsInLockstep

====
